---- MODULE Spec2Model ----
(***************************************************************************)
(* The Crates.io backend of perceval-mozilla                              *)
(* (src/perceval/backends/mozilla/crates.py): the generator returned by   *)
(* Crates.fetch, driven by a consumer that pulls items, on top of         *)
(* CratesClient, whose every transport attempt is answered by a server    *)
(* that may fail the connection, answer an HTTP error status or answer a  *)
(* body.                                                                  *)
(*                                                                        *)
(* Time is counted in abstract units from the epoch.  A timestamp is a    *)
(* wall-clock reading together with the offset of its time zone; the      *)
(* instant it denotes is wall - off.  A JSON text is represented by the   *)
(* value it decodes to.  The code never inspects the id of a crate (it    *)
(* only puts it in URLs), so the entries of the listing are named by      *)
(* their position in the listing: 1, 2, 3, ...                            *)
(***************************************************************************)
EXTENDS Integers, Sequences, FiniteSets, TLC

\* ---------------------------------------------------------------- bounds
\* Most listing pages the model lets the client request in one traversal.
MaxPage == 2
\* Most crates the registry holds: the entries of all the pages of one
\* listing together.
MaxCrates == 3
\* Largest meta.total the server reports.
MaxTotal == 3

\* ----------------------------------------------------- program constants
CRATES_CATEGORY == "crates"
SUMMARY_CATEGORY == "summary"
SLEEP_TIME == 300
\* A ceiling one too high.
MAX_RETRIES_one_more == 5 + 1

MAX_RETRIES == 5

\* ------------------------------------------------------------ timestamps
\* The timestamp strings the server uses for updated_at: instants 0 and 1,
\* the second one written in a zone one unit east of UTC.
DateStrs ==
    { [wall |-> 0, off |-> 0], [wall |-> 2, off |-> 1] }

\* DEFAULT_DATETIME of perceval.utils: the epoch, in UTC.
DEFAULT_DATETIME == [wall |-> 0, off |-> 0, aware |-> TRUE]

\* The from_date values a caller passes: the default (instant 0), a naive
\* datetime (read as UTC: instant 1) and an aware one in a zone two units
\* east of UTC (wall 3: instant 1).
FromDates ==
    { DEFAULT_DATETIME,
      [wall |-> 1, off |-> 0, aware |-> FALSE],
      [wall |-> 3, off |-> 2, aware |-> TRUE] }

\* grimoirelab.toolkit.datetime.str_to_datetime: the aware datetime a
\* timestamp string denotes.
str_to_datetime(s) == [wall |-> s.wall, off |-> s.off, aware |-> TRUE]

\* grimoirelab.toolkit.datetime.datetime_to_utc: a naive datetime is taken
\* as UTC, an aware one is moved to the UTC zone.
datetime_to_utc(dt) ==
    IF dt.aware
    THEN [wall |-> dt.wall - dt.off, off |-> 0, aware |-> TRUE]
    ELSE [wall |-> dt.wall, off |-> 0, aware |-> TRUE]

\* The instant an aware datetime denotes.
Instant(dt) == dt.wall - dt.off

\* a < b on aware datetimes: the order of the instants.
Before(a, b) == Instant(a) < Instant(b)

\* ------------------------------------------------------------- variables
VARIABLES
    call,           \* the entry point: "fetch" (Crates.fetch) or "crates"
                    \* (CratesClient.crates, pulled directly)
    from_page,      \* crates(from_page=...)
    extras,         \* the pass-through keys the registry adds to a crate
    item,           \* the item handed to the metadata_* functions
    md,             \* what the metadata_* functions returned for it
    failed_before,  \* whether an earlier request of this traversal lost a
                    \* connection: "no", "yes", or "untracked"
    category,       \* fetch(category=...): CRATES_CATEGORY or SUMMARY_CATEGORY
    from_date,      \* fetch(from_date=...), as the caller passed it
    sleep_time,     \* CratesClient.sleep_time
    pc,             \* where the generator stands (see Init)
    at,             \* the call site of the __send_request in progress
    req,            \* the request of the __send_request in progress
    retries,        \* __send_request: retries
    attempts,       \* transport attempts (requests.get calls) of this request
    sleeps,         \* the time.sleep durations of this request, in order
    result,         \* how the last __send_request ended
    page,           \* __fetch_items: page
    parsed_crates,  \* __fetch_items: parsed_crates
    total_crates,   \* __fetch_items: total_crates
    crates,         \* __fetch_crates: crates['crates'] of the page in hand
    idx,            \* __fetch_crates: position of crate_container in crates
    crate,          \* __fetch_crates: crate
    yielded,        \* the items the consumer has received, in order
    reqlog,         \* the requests issued so far, in order
    pages,          \* the entries of each listing page received, in order
    first_total,    \* meta.total of the first listing page received
    error,          \* the exception the consumer received ("" for none)
    errlog          \* the bodies passed to logger.error, in order

vars ==
    << call, from_page, extras, item, md, failed_before, category, from_date,
       sleep_time, pc, at, req, retries, attempts, sleeps, result, page,
       parsed_crates, total_crates, crates, idx, crate, yielded, reqlog,
       pages, first_total, error, errlog >>

\* ------------------------------------------------------------- requests
\* CratesClient.__build_payload.
Digits == << "0", "1", "2", "3", "4", "5", "6", "7", "8", "9" >>

Str(n) == Digits[n + 1]

build_payload(p) ==
    IF p # 0
    THEN { << "sort", "alphabetical" >>, << "page", Str(p) >> }
    ELSE { << "sort", "alphabetical" >> }

\* The URL path below CRATES_API_URL and the query parameters of a request.
SummaryReq == [path |-> << SUMMARY_CATEGORY >>, params |-> {}]

PageReq(p) == [path |-> << CRATES_CATEGORY >>, params |-> build_payload(p)]

CrateReq(id) == [path |-> << CRATES_CATEGORY, id >>, params |-> {}]

\* The downloads and the versions sub-resources taken for each other.
AttrReqSwapped(id, attribute) ==
    [path |-> << CRATES_CATEGORY, id,
                 IF attribute = "downloads" THEN "versions"
                 ELSE IF attribute = "versions" THEN "downloads"
                 ELSE attribute >>,
     params |-> {}]

AttrReq(id, attribute) ==
    [path |-> << CRATES_CATEGORY, id, attribute >>, params |-> {}]

NoReq == [path |-> << >>, params |-> {}]

NoResult == [status |-> "none", body |-> "" ]

\* ------------------------------------------------------------ the server
\* The sequences of at most n timestamp strings.
DateSeqs(n) == UNION { [1..k -> DateStrs] : k \in 0..n }

\* A listing page whose entries carry the timestamps ds; the entries are
\* named by their position in the listing, which has `before` entries so far.
PageBody(ds, before, total) ==
    [ crates |-> [i \in 1..Len(ds) |-> [id |-> before + i, updated_at |-> ds[i]]],
      meta |-> [total |-> total] ]

\* The sets of pass-through keys a registry may add to its crate resources.
ExtraKeys ==
    { {}, { "downloads" }, { "num_downloads" },
      { "num_downloads", "fetched_on" } }

\* The value the registry gives a pass-through key: a timestamp string for
\* fetched_on, a count for the others.
ExtraValue(k) == IF k = "fetched_on" THEN [wall |-> 5, off |-> 0] ELSE 0

\* A crate resource with the pass-through keys of this registry added.
WithExtras(d) ==
    [k \in DOMAIN d \cup extras |->
        IF k \in DOMAIN d THEN d[k] ELSE ExtraValue(k)]

\* The bodies the server may answer at a call site.
Bodies(site, r, before) ==
    CASE site = "summary" -> { [num_downloads |-> 7, num_crates |-> 3] }
      [] site = "page" ->
            { PageBody(ds, before, t) :
                ds \in DateSeqs(MaxCrates - before), t \in 0..MaxTotal }
      [] site = "crate" ->
            { [crate |-> WithExtras([id |-> r.path[2], updated_at |-> d])] :
                d \in DateStrs }
      [] OTHER -> { [of |-> r.path[2], attribute |-> r.path[3]] }

\* The values of from_page a caller passes.
StartPages == { 0, 1, 2 }

\* The values datetime_utcnow() may return.
Nows == { [wall |-> 5, off |-> 0] }

\* ------------------------------------------------------ __send_request
\* time.sleep(self.sleep_time * retries)
SleepFor(st, n) == st * n

\* The loop test written with <=.
MayAttemptOnceMore(n) == n <= MAX_RETRIES

\* while retries < self.MAX_RETRIES
MayAttempt(n) == n < MAX_RETRIES

\* The counter kept from one call to the next, as a field of the client.
SendKeepingRetries(site, r) ==
    /\ at' = site
    /\ req' = r
    /\ retries' = retries
    /\ attempts' = 0
    /\ sleeps' = << >>
    /\ result' = NoResult
    /\ reqlog' = Append(reqlog, r)
    /\ failed_before' = IF failed_before = "no" /\ sleeps # << >>
                        THEN "yes"
                        ELSE failed_before
    /\ pc' = "sending"

\* A call of __send_request from `site` begins: retries = 0.
Send(site, r) ==
    /\ at' = site
    /\ req' = r
    /\ retries' = 0
    /\ attempts' = 0
    /\ sleeps' = << >>
    /\ result' = NoResult
    /\ reqlog' = Append(reqlog, r)
    /\ failed_before' = IF failed_before = "no" /\ sleeps # << >>
                        THEN "yes"
                        ELSE failed_before
    /\ pc' = "sending"

\* The exception is recorded and swallowed, and the loop goes on.
RaiseAndGoOn(site, exc, body) ==
    /\ result' = [status |-> exc, body |-> body]
    /\ errlog' = Append(errlog, body)
    /\ error' = error
    /\ pc' = "sending"

\* The exception wrapped into another one on its way to the consumer.
RaiseTranslated(site, exc, body) ==
    /\ result' = [status |-> exc, body |-> body]
    /\ errlog' = IF site = "page" /\ exc = "HTTPError"
                 THEN Append(errlog, body)
                 ELSE errlog
    /\ error' = "RuntimeError"
    /\ pc' = "raised"

\* __send_request raises `exc` out of the call made at `site`: __fetch_items
\* logs the body of an HTTPError and raises it again; nothing else catches
\* anything, so the generator ends and the consumer receives the exception.
Raise(site, exc, body) ==
    /\ result' = [status |-> exc, body |-> body]
    /\ errlog' = IF site = "page" /\ exc = "HTTPError"
                 THEN Append(errlog, body)
                 ELSE errlog
    /\ error' = exc
    /\ pc' = "raised"

\* requests.get raises ConnectionError: sleep, count the retry, and loop; when
\* the loop ends without a response, r is unbound at r.raise_for_status().
requests_get_ConnectionError ==
    /\ pc = "sending"
    /\ MayAttempt(retries)
    /\ attempts' = attempts + 1
    /\ sleeps' = Append(sleeps, SleepFor(sleep_time, retries))
    /\ retries' = retries + 1
    /\ IF MayAttempt(retries + 1)
       THEN UNCHANGED << pc, result, error, errlog >>
       ELSE Raise(at, "UnboundLocalError", "")
    /\ UNCHANGED << call, from_page, extras, item, md, category, from_date,
                    sleep_time, at, req, page,
                    parsed_crates, total_crates, crates, idx, crate, yielded,
                    reqlog, failed_before, pages, first_total >>

\* requests.get returns a response with an error status: break, then
\* r.raise_for_status() raises HTTPError.
requests_get_error_status ==
    /\ pc = "sending"
    /\ MayAttempt(retries)
    /\ attempts' = attempts + 1
    /\ Raise(at, "HTTPError", "error body")
    /\ UNCHANGED << call, from_page, extras, item, md, category, from_date,
                    sleep_time, at, req, retries, sleeps,
                    page, parsed_crates, total_crates, crates, idx, crate,
                    yielded, reqlog, failed_before, pages, first_total >>

\* requests.get returns a response with a success status: break,
\* r.raise_for_status() passes, return r.text.
requests_get_response ==
    /\ pc = "sending"
    /\ MayAttempt(retries)
    /\ attempts' = attempts + 1
    /\ \E b \in Bodies(at, req, parsed_crates) :
          result' = [status |-> "ok", body |-> b]
    /\ pc' = "returned"
    /\ UNCHANGED << call, from_page, extras, item, md, category, from_date,
                    sleep_time, at, req, retries, sleeps,
                    page, parsed_crates, total_crates, crates, idx, crate,
                    yielded, reqlog, failed_before, pages, first_total, error, errlog >>

\* ------------------------------------------------------- __fetch_items
\* if not total_crates: total_crates = content['meta']['total']
TotalAfter(total, body) == IF total = 0 THEN body.meta.total ELSE total

\* The stop test written with >.
StopPagingLate(parsed, total) == parsed > total

\* if parsed_crates >= total_crates: fetch_data = False
StopPaging(parsed, total) == parsed >= total

\* ------------------------------------------------------ __fetch_crates
\* The filter left out.
SkipsNothing(crate_container, fd) == FALSE

\* The comparison turned round.
SkipsReversed(crate_container, fd) ==
    Before(fd, str_to_datetime(crate_container.updated_at))

\* The comparison written with <=.
SkipsInclusive(crate_container, fd) ==
    ~Before(fd, str_to_datetime(crate_container.updated_at))

\* if str_to_datetime(crate_container['updated_at']) < from_date: continue
Skips(crate_container, fd) ==
    Before(str_to_datetime(crate_container.updated_at), fd)

\* `break` in the place of `continue`: a skipped entry ends the page.
NextPassingBreak(cr, i, fd) ==
    IF i > Len(cr) THEN i
    ELSE IF Before(str_to_datetime(cr[i].updated_at), fd) THEN Len(cr) + 1
    ELSE i

\* The position of the first entry from position i on that is not skipped
\* (Len(cr) + 1 when there is none).
RECURSIVE NextPassing(_, _, _)
NextPassing(cr, i, fd) ==
    IF i > Len(cr) THEN i
    ELSE IF Skips(cr[i], fd) THEN NextPassing(cr, i + 1, fd)
    ELSE i

\* crate[key] = value
Put(d, key, value) ==
    [k \in DOMAIN d \cup {key} |-> IF k = key THEN value ELSE d[k]]

\* __fetch_items resumes after its yield: page += 1, then either the
\* traversal ends or the next page is requested.
AfterPage(parsed, total) ==
    /\ page' = page + 1
    /\ IF StopPaging(parsed, total)
       THEN /\ pc' = "done"
            /\ UNCHANGED << at, req, retries, attempts, sleeps, result,
                            reqlog, failed_before >>
       ELSE /\ page + 1 < from_page + MaxPage
            /\ Send("page", PageReq(page + 1))

\* The page left after its first yield.
ScanOnePerPage(cr, i, parsed, total) ==
    LET j == IF i > 1
             THEN Len(cr) + 1
             ELSE NextPassing(cr, i, datetime_to_utc(from_date)) IN
    /\ crates' = cr
    /\ IF j <= Len(cr)
       THEN /\ idx' = j
            /\ Send("crate", CrateReq(cr[j].id))
            /\ UNCHANGED page
       ELSE /\ idx' = 0
            /\ AfterPage(parsed, total)

\* The for loop over the entries cr of a page, from position i on: the next
\* entry that passes the filter has its crate resource requested; when none
\* is left, __fetch_items resumes after its yield.
Scan(cr, i, parsed, total) ==
    LET j == NextPassing(cr, i, datetime_to_utc(from_date)) IN
    /\ crates' = cr
    /\ IF j <= Len(cr)
       THEN /\ idx' = j
            /\ Send("crate", CrateReq(cr[j].id))
            /\ UNCHANGED page
       ELSE /\ idx' = 0
            /\ AfterPage(parsed, total)

\* ------------------------------------------------------------- metadata
\* How a call ends: with a value or with an exception.
Returned(v) == [returns |-> v]

Raised(exc) == [raises |-> exc]

\* The test turned round.
metadata_category_inverted(it) ==
    IF "num_downloads" \in DOMAIN it THEN CRATES_CATEGORY ELSE SUMMARY_CATEGORY

\* Crates.metadata_category.
metadata_category(it) ==
    IF "num_downloads" \in DOMAIN it THEN SUMMARY_CATEGORY ELSE CRATES_CATEGORY

\* datetime.timestamp(): the UNIX time of the instant.
timestamp(dt) == Instant(dt)

\* str() of a float holding a whole number.
StrFloat(x) == Str(x) \o ".0"

\* item[key]: a missing key raises KeyError.
Has(it, key) == key \in DOMAIN it

\* Crates.metadata_id.
metadata_id(it) ==
    IF metadata_category(it) = CRATES_CATEGORY
    THEN IF Has(it, "id") THEN Returned(Str(it.id)) ELSE Raised("KeyError")
    ELSE IF Has(it, "fetched_on")
         THEN Returned(StrFloat(timestamp(str_to_datetime(it.fetched_on))))
         ELSE Raised("KeyError")

\* Crates.metadata_updated_on.
metadata_updated_on(it) ==
    LET key == IF metadata_category(it) = CRATES_CATEGORY
               THEN "updated_at"
               ELSE "fetched_on"
    IN  IF Has(it, key)
        THEN Returned(timestamp(str_to_datetime(it[key])))
        ELSE Raised("KeyError")

\* The generator of fetch yields `record` (yield summary, yield crate)
\* through @metadata, whose code is not part of this repository. Either the
\* record reaches the consumer as the generator yielded it; or, when the
\* wrapper applies the three functions to it before handing it over and one
\* of them raises, the consumer receives that exception in its place.
Emit(record) ==
    \/ /\ yielded' = Append(yielded, record)
       /\ pc' = "suspended"
       /\ UNCHANGED error
    \/ /\ \/ "raises" \in DOMAIN metadata_id(record)
          \/ "raises" \in DOMAIN metadata_updated_on(record)
       /\ error' = "KeyError"
       /\ pc' = "raised"
       /\ UNCHANGED yielded

\* ---------------------------------------------------------------- fetch
\* The two branches of fetch exchanged.
IsCratesFetchInverted(cat) == cat # CRATES_CATEGORY

\* The category ignored: every fetch takes the crates branch.
IsCratesFetchAlways(cat) == TRUE

\* if category == CRATES_CATEGORY: __fetch_crates, else: __fetch_summary
IsCratesFetch(cat) == cat = CRATES_CATEGORY

\* ------------------------------------------------------------ the steps
\* The consumer pulls the next item: the generator starts, or resumes after
\* its last yield.
next_item ==
    /\ pc \in { "created", "suspended" }
    /\ IF call = "crates"
       THEN IF pc = "created"
            THEN /\ Send("page", PageReq(page))
                 /\ UNCHANGED << page, crates, idx >>
            ELSE /\ AfterPage(parsed_crates, total_crates)
                 /\ UNCHANGED << crates, idx >>
       ELSE IF IsCratesFetch(category)
       THEN IF pc = "created"
            THEN /\ Send("page", PageReq(page))
                 /\ UNCHANGED << page, crates, idx >>
            ELSE Scan(crates, idx + 1, parsed_crates, total_crates)
       ELSE IF pc = "created"
            THEN /\ Send("summary", SummaryReq)
                 /\ UNCHANGED << page, crates, idx >>
            ELSE /\ pc' = "done"
                 /\ UNCHANGED << at, req, retries, attempts, sleeps, result,
                                 reqlog, failed_before, page, crates, idx >>
    /\ UNCHANGED << call, from_page, extras, item, md, category, from_date,
                    sleep_time, parsed_crates,
                    total_crates, crate, yielded, pages, first_total, error, errlog >>

\* __send_request returns r.text to its caller, which goes on to its next
\* request or to its next yield.
send_request_return ==
    /\ pc = "returned"
    /\ LET body == result.body IN
       CASE at = "summary" ->
              \E now \in Nows :
                 /\ Emit(Put(body, "fetched_on", now))
                 /\ UNCHANGED << at, req, retries, attempts, sleeps, result,
                                 reqlog, failed_before, page, parsed_crates, total_crates,
                                 crates, idx, crate, pages, first_total >>
         [] at = "page" ->
              /\ parsed_crates' = parsed_crates + Len(body.crates)
              /\ total_crates' = TotalAfter(total_crates, body)
              /\ pages' = Append(pages, body.crates)
              /\ first_total' = IF pages = << >> THEN body.meta.total
                                ELSE first_total
              /\ IF call = "crates"
                 THEN /\ yielded' = Append(yielded, body)
                      /\ pc' = "suspended"
                      /\ UNCHANGED << at, req, retries, attempts, sleeps,
                                      result, reqlog, failed_before, page,
                                      crates, idx, crate, error >>
                 ELSE /\ Scan(body.crates, 1,
                              parsed_crates + Len(body.crates),
                              TotalAfter(total_crates, body))
                      /\ UNCHANGED << crate, yielded, error >>
         [] at = "crate" ->
              /\ crate' = body.crate
              /\ Send("owner_team", AttrReq(crates[idx].id, "owner_team"))
              /\ UNCHANGED << page, parsed_crates, total_crates, crates, idx,
                              yielded, pages, first_total, error >>
         [] at = "owner_team" ->
              /\ crate' = Put(crate, "owner_team_data", body)
              /\ Send("owner_user", AttrReq(crates[idx].id, "owner_user"))
              /\ UNCHANGED << page, parsed_crates, total_crates, crates, idx,
                              yielded, pages, first_total, error >>
         [] at = "owner_user" ->
              /\ crate' = Put(crate, "owner_user_data", body)
              /\ Send("downloads", AttrReq(crates[idx].id, "downloads"))
              /\ UNCHANGED << page, parsed_crates, total_crates, crates, idx,
                              yielded, pages, first_total, error >>
         [] at = "downloads" ->
              /\ crate' = Put(crate, "version_downloads_data", body)
              /\ Send("versions", AttrReq(crates[idx].id, "versions"))
              /\ UNCHANGED << page, parsed_crates, total_crates, crates, idx,
                              yielded, pages, first_total, error >>
         [] at = "versions" ->
              /\ crate' = Put(crate, "versions_data", body)
              /\ Emit(Put(crate, "versions_data", body))
              /\ UNCHANGED << at, req, retries, attempts, sleeps, result,
                              reqlog, failed_before, page, parsed_crates, total_crates,
                              crates, idx, pages, first_total >>
    /\ UNCHANGED << call, from_page, extras, item, md, category, from_date,
                    sleep_time, errlog >>

\* ------------------------------------------------------ specification
\* Crates(sleep_time).fetch(from_date, category) has returned its generator;
\* nothing runs until the consumer pulls.
Start ==
    /\ sleep_time \in { SLEEP_TIME }
    /\ md = << >>
    /\ pc = "created"
    /\ at = "none"
    /\ req = NoReq
    /\ retries = 0
    /\ attempts = 0
    /\ sleeps = << >>
    /\ result = NoResult
    /\ page = from_page
    /\ parsed_crates = 0
    /\ total_crates = 0
    /\ crates = << >>
    /\ idx = 0
    /\ crate = << >>
    /\ yielded = << >>
    /\ reqlog = << >>
    /\ pages = << >>
    /\ first_total = 0
    /\ error = ""
    /\ errlog = << >>

\* Crates.fetch(from_date, category) on a registry that adds the keys
\* `extras` to its crate resources.
InitFetch(extraKeys) ==
    /\ call = "fetch"
    /\ category \in { CRATES_CATEGORY, SUMMARY_CATEGORY }
    /\ from_date \in FromDates
    /\ from_page = 1
    /\ extras \in extraKeys
    /\ item = << >>
    /\ Start

\* CratesClient.crates(from_page), pulled directly.
InitCrates ==
    /\ call = "crates"
    /\ category = "none"
    /\ from_date = DEFAULT_DATETIME
    /\ from_page \in StartPages
    /\ extras = {}
    /\ item = << >>
    /\ Start

Init ==
    /\ InitFetch({ {} }) \/ InitCrates
    /\ failed_before = "untracked"

Next ==
    \/ next_item
    \/ requests_get_ConnectionError
    \/ requests_get_error_status
    \/ requests_get_response
    \/ send_request_return

Spec == Init /\ [][Next]_vars

\* Crates.fetch alone.
InitFetchOnly ==
    /\ InitFetch({ {} })
    /\ failed_before = "untracked"

SpecFetch == InitFetchOnly /\ [][Next]_vars

\* Crates.fetch on registries with and without pass-through keys.
InitPassThrough ==
    /\ InitFetch(ExtraKeys)
    /\ failed_before = "untracked"

\* The same runs as Spec, with the history of lost connections kept.
InitRetry ==
    /\ InitFetch({ {} }) \/ InitCrates
    /\ failed_before = "no"

SpecRetry == InitRetry /\ [][Next]_vars

SpecPassThrough == InitPassThrough /\ [][Next]_vars

\* ------------------------------------------------- metadata, applied
\* The items the metadata functions are applied to: every choice of the
\* keys they look at, present or absent.
ItemKeys == { "id", "updated_at", "fetched_on", "num_downloads" }

ItemFields ==
    [id : { 1, 2 }, updated_at : DateStrs, fetched_on : DateStrs \cup Nows,
     num_downloads : { 0, 7 }]

Items ==
    UNION { { [k \in K |-> f[k]] : f \in ItemFields } :
            K \in SUBSET ItemKeys }

\* The three functions applied to one item.
apply_metadata ==
    /\ call = "metadata"
    /\ md = << >>
    /\ md' = [category |-> metadata_category(item),
              id |-> metadata_id(item),
              updated_on |-> metadata_updated_on(item)]
    /\ UNCHANGED << call, from_page, extras, item, failed_before, category,
                    from_date, sleep_time, pc, at, req, retries, attempts,
                    sleeps, result, page, parsed_crates, total_crates, crates,
                    idx, crate, yielded, reqlog, pages, first_total, error,
                    errlog >>

InitMetadata ==
    /\ call = "metadata"
    /\ category = "none"
    /\ from_date = DEFAULT_DATETIME
    /\ from_page = 1
    /\ extras = {}
    /\ item \in Items
    /\ failed_before = "untracked"
    /\ Start

SpecMetadata == InitMetadata /\ [][apply_metadata]_vars

\* ============================================================== claims
\* What the claims speak of, read off the histories without the operators
\* of the model above.

\* The instant from_date denotes (a naive datetime is read as UTC).
FromInstant ==
    IF from_date.aware THEN from_date.wall - from_date.off ELSE from_date.wall

\* The instant a timestamp string denotes.
StampInstant(s) == s.wall - s.off

\* The entry's (or record's) updated_at is strictly earlier than from_date.
Older(e) == StampInstant(e.updated_at) < FromInstant

\* The listing entries received so far, page by page.
RECURSIVE Flatten(_)
Flatten(ps) == IF ps = << >> THEN << >> ELSE Head(ps) \o Flatten(Tail(ps))

Listed == Flatten(pages)

\* The number of entries in the first n pages received.
RECURSIVE CumLen(_)
CumLen(n) == IF n = 0 THEN 0 ELSE CumLen(n - 1) + Len(pages[n])

\* The positions in reqlog of the requests of a listing page.
PageRequests == { k \in DOMAIN reqlog : reqlog[k].path = << CRATES_CATEGORY >> }

\* The positions in reqlog of the requests made for the crate `id`: its
\* resource and its sub-resources.
CrateRequests(id) ==
    { k \in DOMAIN reqlog : Len(reqlog[k].path) >= 2 /\ reqlog[k].path[2] = id }

IsPrefix(a, b) == Len(a) <= Len(b) /\ \A k \in DOMAIN a : a[k] = b[k]

YieldedIds == [m \in DOMAIN yielded |-> yielded[m].id]

PassingEntries == SelectSeq(Listed, LAMBDA e : ~Older(e))

PassingIds == [k \in DOMAIN PassingEntries |-> PassingEntries[k].id]

\* C1: in a crates fetch, for a listing entry whose updated_at is strictly
\* earlier than the normalized from_date no request is ever issued for its
\* id (neither the crate resource nor a sub-resource) and no record of that
\* id is ever yielded.
C1_SkippedEntryNeverFetched ==
    category = CRATES_CATEGORY =>
        \A k \in DOMAIN Listed :
            Older(Listed[k]) =>
                /\ CrateRequests(Listed[k].id) = {}
                /\ \A m \in DOMAIN yielded : yielded[m].id # Listed[k].id

\* C1 witness: an older entry was listed and skipped, and a later entry of
\* the listing was enriched and yielded.
C1_Witness ==
    /\ category = CRATES_CATEGORY
    /\ \E k \in DOMAIN Listed :
          /\ Older(Listed[k])
          /\ \E m \in DOMAIN yielded : yielded[m].id > Listed[k].id

\* C2 as stated: every yielded crate record carries an updated_at that is
\* not earlier than from_date.
C2_YieldedRecordNotOlder ==
    category = CRATES_CATEGORY =>
        \A m \in DOMAIN yielded : ~Older(yielded[m])

\* C2 as amended: every yielded crate record was built for a listing entry
\* whose updated_at is not earlier than from_date (the bound is on the
\* listing entry the filter read, not on the record's own field).
C2_YieldedEntryNotOlder ==
    category = CRATES_CATEGORY =>
        \A m \in DOMAIN yielded :
            \E k \in DOMAIN Listed :
                /\ Listed[k].id = yielded[m].id
                /\ ~Older(Listed[k])

\* C2 witness: a record was yielded whose own updated_at is earlier than
\* from_date although its listing entry passed the filter.
C2_Witness ==
    /\ category = CRATES_CATEGORY
    /\ \E m \in DOMAIN yielded :
          /\ Older(yielded[m])
          /\ \E k \in DOMAIN Listed :
                Listed[k].id = yielded[m].id /\ ~Older(Listed[k])

\* C3: every listing page after the first is requested while the entries
\* of all pages received before it number less than the total the first
\* page reported, and the traversal ends only once they have reached or
\* exceeded that total.
C3_PagingStopsAtTotal ==
    category = CRATES_CATEGORY =>
        /\ Cardinality(PageRequests) \in { Len(pages), Len(pages) + 1 }
        /\ \A n \in 1..(Cardinality(PageRequests) - 1) : CumLen(n) < first_total
        /\ pc = "done" => CumLen(Len(pages)) >= first_total

\* C3 witness: a traversal of two pages that ended with more entries than
\* the reported total.
C3_Witness ==
    /\ category = CRATES_CATEGORY
    /\ pc = "done"
    /\ Len(pages) = 2
    /\ CumLen(1) < first_total
    /\ CumLen(2) > first_total

\* C4: while a request is being sent, at most 4 connection failures have
\* happened, every attempt so far has failed, and the next attempt may
\* succeed; when the request returns, it returns the body of a successful
\* response after exactly (number of connection failures) + 1 attempts.
C4_SuccessAfterFailures ==
    /\ pc = "sending" =>
          /\ Len(sleeps) \in 0..4
          /\ attempts = Len(sleeps)
          /\ ENABLED requests_get_response
    /\ pc = "returned" =>
          /\ Len(sleeps) \in 0..4
          /\ attempts = Len(sleeps) + 1
          /\ result.status = "ok"
          /\ result.body \in Bodies(at, req, CumLen(Len(pages)))

\* C4 witness: two connection failures, then a success: three attempts.
C4_Witness ==
    /\ pc = "returned"
    /\ Len(sleeps) = 2
    /\ attempts = 3
    /\ result.status = "ok"

\* C5 as stated: the sleep before the n-th retry of a request lasts
\* sleep_time * n.
C5_LinearBackoffFromSleepTime ==
    \A n \in DOMAIN sleeps : sleeps[n] = sleep_time * n

\* C6: a request that ended with an HTTP error status has raised HTTPError
\* to the consumer right after the attempt that got the response (the only
\* attempts before it are the ones that failed to connect, so a request
\* whose first attempt gets the error status makes one attempt and never
\* sleeps), and nothing happens afterwards: no retry, no sleep.
C6_HttpErrorNotRetried ==
    result.status = "HTTPError" =>
        /\ pc = "raised"
        /\ error = "HTTPError"
        /\ attempts = Len(sleeps) + 1
        /\ ~ENABLED Next

\* C6 witness: the first attempt of a request got an error status.
C6_Witness ==
    /\ result.status = "HTTPError"
    /\ attempts = 1
    /\ sleeps = << >>
    /\ pc = "raised"

\* C7: a request never makes more than 5 transport attempts.
C7_AtMostFiveAttempts == attempts <= 5

\* C7 witness: a request whose fifth attempt succeeded after four
\* connection failures.
C7_Witness ==
    /\ attempts = 5
    /\ Len(sleeps) = 4
    /\ pc = "returned"

\* C8 as stated: a request whose 5 guarded attempts all failed to connect
\* makes a sixth attempt, and when it has raised, what it raised is the
\* failure of that attempt, not anything else.
C8_FinalUnguardedAttempt ==
    (pc = "raised" /\ Len(sleeps) >= 5) =>
        /\ attempts = 6
        /\ error \in { "ConnectionError", "HTTPError" }

\* C9: in a crates fetch without error, the ids of the yielded records are
\* at every moment a prefix of the ids of the listing entries that pass the
\* filter, in listing order, and they are all of them when the traversal
\* has ended.
C9_YieldedInListingOrder ==
    (category = CRATES_CATEGORY /\ error = "") =>
        /\ IsPrefix(YieldedIds, PassingIds)
        /\ pc = "done" => YieldedIds = PassingIds

\* C9 witness: the traversal of a listing of two pages, 2 + 1 entries, one
\* entry of the first page older than from_date, has ended with 2 records.
C9_Witness ==
    /\ category = CRATES_CATEGORY
    /\ pc = "done"
    /\ Len(pages) = 2
    /\ Len(pages[1]) = 2
    /\ Len(pages[2]) = 1
    /\ \E k \in 1..2 : Older(pages[1][k])
    /\ Len(yielded) = 2

\* C10: a summary fetch issues no request but one to the summary endpoint,
\* yields at most one record, and once it has yielded or ended without
\* error it has issued exactly that request and yielded exactly one record,
\* which carries fetched_on.
C10_SummaryOneRequestOneRecord ==
    category = SUMMARY_CATEGORY =>
        /\ \A k \in DOMAIN reqlog : reqlog[k] = SummaryReq
        /\ Len(reqlog) <= 1
        /\ Len(yielded) <= 1
        /\ pc \in { "suspended", "done" } =>
              /\ Len(reqlog) = 1
              /\ Len(yielded) = 1
              /\ "fetched_on" \in DOMAIN yielded[1]
              /\ "num_downloads" \in DOMAIN yielded[1]
        /\ pc = "done" => ~ENABLED Next

\* C10 witness: a summary fetch that has yielded its record and ended.
C10_Witness ==
    /\ category = SUMMARY_CATEGORY
    /\ pc = "done"
    /\ Len(yielded) = 1

\* C19: the retry state is local to one request. Whatever happened to the
\* requests before it, a request in progress has lost as many connections
\* as it has slept and counted, its n-th sleep is sleep_time * (n - 1), and
\* it may still be attempted as long as fewer than five of its own attempts
\* were lost.
C19_RetryStateLocalToRequest ==
    pc \in { "sending", "returned", "raised" } =>
        /\ retries = Len(sleeps)
        /\ attempts \in { Len(sleeps), Len(sleeps) + 1 }
        /\ \A n \in DOMAIN sleeps : sleeps[n] = sleep_time * (n - 1)
        /\ pc = "sending" =>
              /\ Len(sleeps) < 5
              /\ ENABLED requests_get_response

\* C19 witness: a request that follows a request that lost connections has
\* lost two connections itself, and slept 0 and sleep_time for them.
C19_Witness ==
    /\ failed_before = "yes"
    /\ pc = "sending"
    /\ sleeps = << 0, sleep_time >>
    /\ attempts = 2

\* The decimal numerals of the numbers in use.
Numeral(n) == << "0", "1", "2", "3", "4", "5", "6", "7", "8", "9" >>[n + 1]

\* C11: the listing traversal is finite for every start page and every
\* sequence of page responses. The loop of __fetch_items goes on from the
\* state (parsed_crates, total_crates) alone, parsed_crates never decreases
\* and total_crates is fixed once read, so the traversal is finite against
\* every server exactly when every page that is followed by the request of
\* another page has brought the count nearer the total, that is, was not
\* empty. Stated so: no page request follows an empty page.
C11_ListingTraversalFinite ==
    \A n \in DOMAIN pages :
        Cardinality(PageRequests) > n => pages[n] # << >>

\* C12 as stated: one invocation emits one category only: every record a
\* crates fetch hands to its consumer is classified as a crate by
\* metadata_category and every record of a summary fetch as a summary,
\* whatever pass-through keys the crate resources of the registry carry.
C12_ClassifiedByFetchMode ==
    call = "fetch" =>
        \A m \in DOMAIN yielded : metadata_category(yielded[m]) = category

\* C12 as amended: a record of a crates fetch is classified as a crate
\* provided the crate resource of the registry carries no num_downloads key
\* of its own; a record emitted for a resource that carries one is
\* classified as a summary. Every record of a summary fetch is classified
\* as a summary.
C12_ClassifiedUnlessNumDownloadsPassedThrough ==
    call = "fetch" =>
        \A m \in DOMAIN yielded :
            metadata_category(yielded[m]) =
                IF category = CRATES_CATEGORY /\ "num_downloads" \in extras
                THEN SUMMARY_CATEGORY
                ELSE category

\* C12 witness: a crates fetch has ended after handing over a record whose
\* crate resource carried num_downloads and fetched_on next to id and
\* updated_at: the three functions return for it, and it is classified as
\* a summary.
C12_Witness ==
    /\ call = "fetch"
    /\ category = CRATES_CATEGORY
    /\ pc = "done"
    /\ error = ""
    /\ yielded # << >>
    /\ { "num_downloads", "fetched_on", "id", "updated_at", "versions_data" }
          \subseteq DOMAIN yielded[1]
    /\ "returns" \in DOMAIN metadata_id(yielded[1])
    /\ "returns" \in DOMAIN metadata_updated_on(yielded[1])

\* C13: metadata_category is a structural test (summary for an item with a
\* num_downloads key, crate for every other item), and metadata_id and
\* metadata_updated_on choose their field by this test: id and updated_at
\* for a crate, fetched_on for a summary. The identifier is the string of
\* the chosen value, the update time the UNIX time of the chosen timestamp;
\* a chosen field that is missing raises KeyError.
C13_FieldsChosenByNumDownloads ==
    md # << >> =>
        LET summary == "num_downloads" \in DOMAIN item
            idKey == IF summary THEN "fetched_on" ELSE "id"
            updKey == IF summary THEN "fetched_on" ELSE "updated_at"
        IN  /\ md.category =
                  IF summary THEN SUMMARY_CATEGORY ELSE CRATES_CATEGORY
            /\ md.id =
                  IF idKey \notin DOMAIN item THEN [raises |-> "KeyError"]
                  ELSE IF summary
                  THEN [returns |->
                           Numeral(StampInstant(item.fetched_on)) \o ".0"]
                  ELSE [returns |-> Numeral(item.id)]
            /\ md.updated_on =
                  IF updKey \notin DOMAIN item THEN [raises |-> "KeyError"]
                  ELSE [returns |-> StampInstant(item[updKey])]

\* C13 witness: the functions were applied to an item that has all four
\* keys, with timestamps at different instants, and to which the choice
\* therefore matters.
C13_Witness ==
    /\ md # << >>
    /\ DOMAIN item = ItemKeys
    /\ StampInstant(item.fetched_on) # StampInstant(item.updated_at)
    /\ md.updated_on = [returns |-> StampInstant(item.fetched_on)]

\* The requests made to enrich entries (crate resources and sub-resources),
\* in the order they were issued.
Enrichment == SelectSeq(reqlog, LAMBDA r : Len(r.path) >= 2)

\* The sub-resources of a crate in the order stated, and the field of the
\* record each one fills.
SubResources == << "owner_team", "owner_user", "downloads", "versions" >>

SubResourceFields ==
    << "owner_team_data", "owner_user_data", "version_downloads_data",
       "versions_data" >>

\* C14: in a crates fetch the requests made for the passing entries come in
\* groups of five, one group per passing entry in listing order, each group
\* being the crate resource, owner_team, owner_user, downloads and versions
\* of the same id, with no request of another entry and no page request
\* inside a group; a record is yielded only once its five requests have
\* succeeded, and every yielded record carries owner_team_data,
\* owner_user_data, version_downloads_data and versions_data, each holding
\* the body of its sub-resource.
C14_FiveRequestsPerEntryInOrder ==
    (call = "fetch" /\ category = CRATES_CATEGORY) =>
        LET E == Enrichment
            P == PassingIds
        IN  /\ Len(E) <= 5 * Len(P)
            /\ \A n \in DOMAIN E :
                  LET id == P[((n - 1) \div 5) + 1]
                      r == (n - 1) % 5
                  IN  E[n].path =
                          IF r = 0
                          THEN << CRATES_CATEGORY, id >>
                          ELSE << CRATES_CATEGORY, id, SubResources[r] >>
            /\ \A k \in DOMAIN reqlog :
                  (k > 1 /\ Len(reqlog[k].path) < 2) =>
                      \/ Len(reqlog[k - 1].path) = 1
                      \/ /\ Len(reqlog[k - 1].path) = 3
                         /\ reqlog[k - 1].path[3] = "versions"
            /\ 5 * Len(yielded) <= Len(E)
            /\ (pc \in { "sending", "returned", "raised" } /\ Len(req.path) >= 2)
                  => 5 * Len(yielded) < Len(E)
            /\ \A m \in DOMAIN yielded :
                  /\ yielded[m].id = P[m]
                  /\ \A f \in 1..4 :
                        /\ SubResourceFields[f] \in DOMAIN yielded[m]
                        /\ yielded[m][SubResourceFields[f]] =
                              [of |-> yielded[m].id,
                               attribute |-> SubResources[f]]

\* C14 witness: two entries were enriched and yielded and a third entry is
\* being enriched, its owner_team request in flight.
C14_Witness ==
    /\ call = "fetch"
    /\ category = CRATES_CATEGORY
    /\ Len(yielded) = 2
    /\ Len(Enrichment) = 12
    /\ pc = "sending"

\* C15: the bound is inclusive and the filter loses nothing: when a crates
\* fetch without errors has been pulled to its end, every listing entry whose
\* updated_at is at or after the normalized from_date has exactly one record
\* among the yielded ones, every other entry has none, and with the default
\* from_date every listing entry has its record.
C15_EveryPassingEntryYieldedOnce ==
    (call = "fetch" /\ category = CRATES_CATEGORY /\ pc = "done") =>
        /\ \A k \in DOMAIN Listed :
              Cardinality({ m \in DOMAIN yielded :
                              yielded[m].id = Listed[k].id }) =
                  IF StampInstant(Listed[k].updated_at) >= FromInstant
                  THEN 1
                  ELSE 0
        /\ \A m \in DOMAIN yielded :
              \E k \in DOMAIN Listed : Listed[k].id = yielded[m].id
        /\ from_date = DEFAULT_DATETIME => Len(yielded) = Len(Listed)

\* C15 witness: a fetch has ended after yielding the record of an entry
\* updated at the very instant of from_date, an older entry being left out.
C15_Witness ==
    /\ call = "fetch"
    /\ category = CRATES_CATEGORY
    /\ pc = "done"
    /\ from_date # DEFAULT_DATETIME
    /\ \E k \in DOMAIN Listed :
          /\ StampInstant(Listed[k].updated_at) = FromInstant
          /\ \E m \in DOMAIN yielded : yielded[m].id = Listed[k].id
    /\ \E k \in DOMAIN Listed : Older(Listed[k])

\* C16: the fetch is driven by the pulls, a page at a time. A page is
\* requested only when every entry of the pages before it was skipped or
\* yielded; and while the consumer is not pulling (the generator not yet
\* started, or suspended at a yield) no request is in progress, no step but
\* a pull can happen, and the requests issued so far are those of the
\* records delivered: five for each yielded record and the pages up to the
\* one of the last yielded record (in a direct listing traversal, one page
\* request for each page delivered).
C16_PullDrivenPageAtATime ==
    /\ (call = "fetch" /\ category = CRATES_CATEGORY) =>
          \A n \in DOMAIN pages :
              Cardinality(PageRequests) > n =>
                  \A k \in DOMAIN pages[n] :
                      \/ Older(pages[n][k])
                      \/ \E m \in DOMAIN yielded :
                            yielded[m].id = pages[n][k].id
    /\ pc \in { "created", "suspended" } =>
          /\ ~ENABLED (\/ requests_get_ConnectionError
                       \/ requests_get_error_status
                       \/ requests_get_response
                       \/ send_request_return)
          /\ pc = "created" => reqlog = << >>
          /\ (pc = "suspended" /\ call = "crates") =>
                Len(reqlog) = Len(yielded)
          /\ (pc = "suspended" /\ category = CRATES_CATEGORY) =>
                /\ Len(Enrichment) = 5 * Len(yielded)
                /\ Cardinality(PageRequests) = Len(pages)
                /\ \E k \in DOMAIN pages[Len(pages)] :
                      pages[Len(pages)][k].id = yielded[Len(yielded)].id

\* C16 witness: the consumer holds the first record of a second page whose
\* next entry passes the filter too, and is not pulling.
C16_Witness ==
    /\ call = "fetch"
    /\ category = CRATES_CATEGORY
    /\ pc = "suspended"
    /\ Len(pages) = 2
    /\ Len(pages[2]) = 2
    /\ yielded[Len(yielded)].id = pages[2][1].id
    /\ ~Older(pages[2][2])

\* C17: when a request of a crates fetch ends with an HTTP error, the
\* consumer has received exactly the records whose enrichment was complete
\* before (the passing entries before the one in hand, in order), the record
\* in hand is not among them, the consumer receives that very error, and
\* nothing happens afterwards: no request, no record.
C17_ErrorEndsFetchAfterCompleteRecords ==
    (call = "fetch" /\ category = CRATES_CATEGORY
        /\ result.status = "HTTPError") =>
        /\ error = "HTTPError"
        /\ pc = "raised"
        /\ ~ENABLED Next
        /\ reqlog[Len(reqlog)] = req
        /\ IsPrefix(YieldedIds, PassingIds)
        /\ IF Len(req.path) >= 2
           THEN /\ Len(yielded) = (Len(Enrichment) - 1) \div 5
                /\ Len(yielded) < Len(PassingIds)
                /\ PassingIds[Len(yielded) + 1] = req.path[2]
                /\ \A m \in DOMAIN yielded : yielded[m].id # req.path[2]
           ELSE /\ 5 * Len(yielded) = Len(Enrichment)
                /\ Len(yielded) = Len(PassingIds)

\* C17 witness: one record was yielded, and a sub-resource request of the
\* next passing entry ended with an HTTP error.
C17_Witness ==
    /\ call = "fetch"
    /\ category = CRATES_CATEGORY
    /\ result.status = "HTTPError"
    /\ Len(yielded) = 1
    /\ Len(req.path) = 3
    /\ crate # << >>

\* C18: for every request (summary, listing page, crate resource,
\* sub-resource) an HTTP error status is logged with the response body
\* before it is raised again.
C18_HttpErrorLogged ==
    result.status = "HTTPError" =>
        /\ errlog # << >>
        /\ errlog[Len(errlog)] = result.body

\* C20: for any start page, the listing requests carry the page numbers
\* from_page, from_page + 1, ... in order, each once, and each carries
\* sort=alphabetical and an explicit page parameter.
C20_PagesNumberedFromStart ==
    \A k \in PageRequests :
        reqlog[k].params =
            { << "sort", "alphabetical" >>,
              << "page",
                 Numeral(from_page
                         + Cardinality({ j \in PageRequests : j < k })) >> }

====
